---- MODULE Spec2Model ----
(***************************************************************************)
(* Recommendation and cuisine-matching engine of the ammas-backend         *)
(* service (src/app/routes/ai.py and the models it reads).                 *)
(*                                                                         *)
(* Representation.                                                         *)
(*  - A Python str is a sequence of one-character strings, so that         *)
(*    lower(), strip(), split() and the substring test `a in b` are        *)
(*    computed as Python computes them.                                    *)
(*  - None in a text column is the value None below; None in a numeric     *)
(*    column is NoneNum (<< >>), a present number v is << v >>.            *)
(*  - Floats are scaled integers: ratings in tenths, scores in             *)
(*    hundredths, prices in hundredths, latitudes and longitudes in        *)
(*    hundredths of a degree.                                              *)
(***************************************************************************)
EXTENDS Integers, Sequences, FiniteSets, TLC

VARIABLES producers, dishes, user, orders, reviews, request, last, probe, verdict

vars == << producers, dishes, user, orders, reviews, request, last, probe, verdict >>

(***************************************************************************)
(* Python values                                                           *)
(***************************************************************************)
None == << "<None>" >>

NoneNum == << >>

Some(v) == << v >>

Val(x) == x[1]

\* truth value of a str-or-None
TruthyStr(s) == s # None /\ s # << >>

\* truth value of a float-or-None
TruthyNum(x) == x # NoneNum /\ Val(x) # 0

Min(a, b) == IF a <= b THEN a ELSE b

Abs(a) == IF a < 0 THEN 0 - a ELSE a

Range(s) == { s[i] : i \in DOMAIN s }

UpperChars ==
  << "A","B","C","D","E","F","G","H","I","J","K","L","M",
     "N","O","P","Q","R","S","T","U","V","W","X","Y","Z" >>

LowerChars ==
  << "a","b","c","d","e","f","g","h","i","j","k","l","m",
     "n","o","p","q","r","s","t","u","v","w","x","y","z" >>

Whitespace == { " ", "\t", "\n" }

LowerMap == [c \in Range(UpperChars) |->
               LowerChars[CHOOSE i \in DOMAIN UpperChars : UpperChars[i] = c]]

LowerChar(c) == IF c \in DOMAIN LowerMap THEN LowerMap[c] ELSE c

\* str.lower()
Lower(s) == [i \in DOMAIN s |-> LowerChar(s[i])]

\* str.strip()
Strip(s) ==
  LET idx == { i \in DOMAIN s : s[i] \notin Whitespace }
  IN  IF idx = {} THEN << >>
      ELSE LET lo == CHOOSE i \in idx : \A j \in idx : i <= j
               hi == CHOOSE i \in idx : \A j \in idx : j <= i
           IN  SubSeq(s, lo, hi)

\* every substring of s, the empty one included
Substrings(s) ==
  { SubSeq(s, p[1], p[2]) : p \in { q \in (DOMAIN s) \X (DOMAIN s) : q[1] <= q[2] } }
    \cup { << >> }

\* the substring test  sub in s
Contains(s, sub) == sub \in Substrings(s)

\* set(s.split()): the maximal runs of non-whitespace characters
SplitWords(s) ==
  { SubSeq(s, i, j) : <<i, j>> \in
      { p \in (DOMAIN s) \X (DOMAIN s) :
          /\ p[1] <= p[2]
          /\ \A k \in p[1]..p[2] : s[k] \notin Whitespace
          /\ (p[1] = 1 \/ s[p[1] - 1] \in Whitespace)
          /\ (p[2] = Len(s) \/ s[p[2] + 1] \in Whitespace) } }

(***************************************************************************)
(* Cuisine taxonomy matcher                                                *)
(***************************************************************************)
\* the cuisine_groups dict, in insertion order
cuisine_groups ==
  <<
    [name |-> "south indian", variants |->
        << <<"s","o","u","t","h"," ","i","n","d","i","a","n">>,
           <<"s","o","u","t","h">>,
           <<"t","a","m","i","l">>,
           <<"t","e","l","u","g","u">>,
           <<"k","a","n","n","a","d","a">>,
           <<"m","a","l","a","y","a","l","a","m">>,
           <<"k","e","r","a","l","a">>,
           <<"k","e","r","a","l","a"," ","c","u","i","s","i","n","e">>,
           <<"a","n","d","h","r","a">>,
           <<"a","n","d","h","r","a"," ","p","r","a","d","e","s","h">>,
           <<"d","o","s","a">>,
           <<"i","d","l","i">>,
           <<"s","a","m","b","a","r">>,
           <<"r","a","s","a","m">> >>],
    [name |-> "north indian", variants |->
        << <<"n","o","r","t","h"," ","i","n","d","i","a","n">>,
           <<"n","o","r","t","h">>,
           <<"p","u","n","j","a","b","i">>,
           <<"d","e","l","h","i">>,
           <<"r","a","j","a","s","t","h","a","n","i">>,
           <<"g","u","j","a","r","a","t","i">>,
           <<"u","t","t","a","r"," ","p","r","a","d","e","s","h">>,
           <<"h","a","r","y","a","n","a">>,
           <<"h","i","m","a","c","h","a","l">> >>],
    [name |-> "bengali", variants |->
        << <<"b","e","n","g","a","l","i">>,
           <<"b","e","n","g","a","l">>,
           <<"k","o","l","k","a","t","a">>,
           <<"w","e","s","t"," ","b","e","n","g","a","l">> >>],
    [name |-> "gujarati", variants |->
        << <<"g","u","j","a","r","a","t","i">>,
           <<"g","u","j","a","r","a","t">> >>],
    [name |-> "maharashtrian", variants |->
        << <<"m","a","h","a","r","a","s","h","t","r","i","a","n">>,
           <<"m","a","h","a","r","a","s","h","t","r","a">>,
           <<"m","a","r","a","t","h","i">>,
           <<"p","u","n","e">>,
           <<"m","u","m","b","a","i">> >>],
    [name |-> "punjabi", variants |->
        << <<"p","u","n","j","a","b","i">>,
           <<"p","u","n","j","a","b">> >>],
    [name |-> "rajasthani", variants |->
        << <<"r","a","j","a","s","t","h","a","n","i">>,
           <<"r","a","j","a","s","t","h","a","n">> >>],
    [name |-> "kerala", variants |->
        << <<"k","e","r","a","l","a">>,
           <<"k","e","r","a","l","a"," ","c","u","i","s","i","n","e">>,
           <<"m","a","l","a","y","a","l","a","m">>,
           <<"k","e","r","a","l","a"," ","f","o","o","d">> >>]
  >>

kwNorth == <<"n","o","r","t","h">>

kwSouth == <<"s","o","u","t","h">>

common_noise_words ==
  { <<"i","n","d","i","a","n">>, <<"c","u","i","s","i","n","e">>,
    <<"f","o","o","d">>, <<"s","t","y","l","e">>,
    <<"c","o","o","k","i","n","g">> }

normalize_cuisine_name(cuisine) ==
  IF ~TruthyStr(cuisine) THEN << >> ELSE Strip(Lower(cuisine))

\* a conflict test that looks one way only: user north, kitchen south
ConflictOneWay(user_subs, producer_subs) ==
  kwNorth \in user_subs /\ kwSouth \in producer_subs

\* the North/South conflict test on the substrings of the two normalized
\* strings
Conflict(user_subs, producer_subs) ==
  LET user_has_north == kwNorth \in user_subs
      user_has_south == kwSouth \in user_subs
      producer_has_north == kwNorth \in producer_subs
      producer_has_south == kwSouth \in producer_subs
  IN  \/ (user_has_north /\ producer_has_south)
      \/ (user_has_south /\ producer_has_north)

\* the first group (in table order) one of whose variants occurs in the
\* string with substrings subs; 0 when there is none
GroupOf(subs) ==
  LET hits == { g \in DOMAIN cuisine_groups :
                  \E k \in DOMAIN cuisine_groups[g].variants :
                    cuisine_groups[g].variants[k] \in subs }
  IN  IF hits = {} THEN 0 ELSE CHOOSE g \in hits : \A h \in hits : g <= h

\* an overlap rule content with one common word
AnyOverlap(user_words, producer_words) == user_words \cap producer_words # {}

\* the word-overlap rule on the two sets of meaningful words
SignificantOverlap(user_words, producer_words) ==
  LET common_words == user_words \cap producer_words
  IN  /\ Cardinality(common_words) > 0
      /\ 2 * Cardinality(common_words)
           >= Min(Cardinality(user_words), Cardinality(producer_words))

\* rules that look for the user's string in the producer's only
MatchRulesOneWay(user_norm, producer_norm, user_subs, producer_subs, conflict, user_group, producer_group) ==
  IF conflict THEN FALSE
  ELSE IF user_group # 0 /\ producer_group # 0 /\ user_group = producer_group THEN TRUE
  ELSE IF user_norm = producer_norm THEN TRUE
  ELSE IF user_norm \in producer_subs THEN TRUE
  ELSE SignificantOverlap(SplitWords(user_norm) \ common_noise_words,
                          SplitWords(producer_norm) \ common_noise_words)

\* the rules after the group lookup, in the order of the code
MatchRules(user_norm, producer_norm, user_subs, producer_subs, conflict, user_group, producer_group) ==
  IF conflict THEN FALSE
  ELSE IF user_group # 0 /\ producer_group # 0 /\ user_group = producer_group
       THEN TRUE
  ELSE IF user_norm = producer_norm THEN TRUE
  ELSE IF user_norm \in producer_subs THEN ~conflict
  ELSE IF producer_norm \in user_subs THEN ~conflict
  ELSE IF SignificantOverlap(SplitWords(user_norm) \ common_noise_words,
                             SplitWords(producer_norm) \ common_noise_words)
       THEN ~conflict
  ELSE FALSE

\* the conflict test and the group lookup on the two normalized strings
MatchNormalized(user_norm, producer_norm, user_subs, producer_subs) ==
  MatchRules(user_norm, producer_norm, user_subs, producer_subs,
             Conflict(user_subs, producer_subs),
             GroupOf(user_subs), GroupOf(producer_subs))

NormalizedPair(user_norm, producer_norm) ==
  MatchNormalized(user_norm, producer_norm,
                  Substrings(user_norm), Substrings(producer_norm))

cuisine_matches(user_cuisine, producer_cuisine) ==
  IF ~TruthyStr(user_cuisine) \/ ~TruthyStr(producer_cuisine) THEN FALSE
  ELSE NormalizedPair(normalize_cuisine_name(user_cuisine),
                      normalize_cuisine_name(producer_cuisine))

(***************************************************************************)
(* Stored preference text.  A Text column that holds "JSON or              *)
(* comma-separated" data is kept by what json.loads makes of it:           *)
(*   [kind |-> "null"]                 the column is NULL                  *)
(*   [kind |-> "list", items |-> s]    valid JSON, an array of strings     *)
(*   [kind |-> "text", raw |-> t]      text that json.loads rejects        *)
(*   [kind |-> "number", raw |-> t]    text that json.loads parses to a    *)
(*                                     number other than 0                 *)
(***************************************************************************)
NullText == [kind |-> "null"]

JsonList(items) == [kind |-> "list", items |-> items]

RawText(raw) == [kind |-> "text", raw |-> raw]

JsonNumber(raw) == [kind |-> "number", raw |-> raw]

\* bool(column)
TruthyText(t) == t.kind \in { "list", "number" } \/ (t.kind = "text" /\ t.raw # << >>)

\* s.split(',')
RECURSIVE SplitComma(_)
SplitComma(s) ==
  LET commas == { i \in DOMAIN s : s[i] = "," }
  IN  IF commas = {} THEN << s >>
      ELSE LET k == CHOOSE i \in commas : \A j \in commas : i <= j
           IN  << SubSeq(s, 1, k - 1) >> \o SplitComma(SubSeq(s, k + 1, Len(s)))

\* s.split(',') if ',' in s else [s]
CommaOrSingle(s) == IF "," \in Range(s) THEN SplitComma(s) ELSE << s >>

MapStrip(s) == [i \in DOMAIN s |-> Strip(s[i])]

NonEmpty(x) == x # << >>

\* User.get_preferred_cuisines_list
get_preferred_cuisines_list(u) ==
  LET t == u.preferred_cuisines
  IN  IF ~TruthyText(t) THEN << >>
      ELSE IF t.kind = "list" THEN SelectSeq(MapStrip(t.items), NonEmpty)
      ELSE IF t.kind = "number" THEN << Strip(t.raw) >>
      ELSE IF "," \in Range(t.raw) THEN SelectSeq(MapStrip(SplitComma(t.raw)), NonEmpty)
      ELSE IF Strip(t.raw) # << >> THEN << Strip(t.raw) >> ELSE << >>

\* the body shared by get_meal_preferences_list, get_allergens_list,
\* get_dietary_restrictions_list and Dish.get_allergens_list: the items of
\* the list returned.  A number is returned as it is; it has no items
\* (ReturnsNumber tells it from the empty list)
ParseList(t) ==
  IF ~TruthyText(t) THEN << >>
  ELSE IF t.kind = "list" THEN t.items
  ELSE IF t.kind = "number" THEN << >>
  ELSE CommaOrSingle(t.raw)

\* json.loads succeeded and its result, a number, is returned in place of
\* a list
ReturnsNumber(t) == t.kind = "number"

get_meal_preferences_list(u) == ParseList(u.meal_preferences)

get_allergens_list(u) == ParseList(u.allergens)

get_dietary_restrictions_list(u) == ParseList(u.dietary_restrictions)

dish_get_allergens_list(d) == ParseList(d.allergens)

(***************************************************************************)
(* Geo-distance estimator.  Coordinates are hundredths of a degree.  All   *)
(* non-zero longitudes of the model lie on one meridian, where the         *)
(* haversine formula reduces to R * |dlat| (in radians).                   *)
(***************************************************************************)
\* R * pi / 180 / 100 with R = 6371 km: metres per hundredth of a degree
\* (1111.95, rounded to the metre)
MetersPerCentiDegree == 1112

\* calculate_distance_haversine: NoneNum, or the distance in metres
calculate_distance_haversine(lat1, lon1, lat2, lon2) ==
  IF ~(TruthyNum(lat1) /\ TruthyNum(lon1) /\ TruthyNum(lat2) /\ TruthyNum(lon2))
  THEN NoneNum
  ELSE Some(Abs(Val(lat2) - Val(lat1)) * MetersPerCentiDegree)

\* calculate_distance with use_google = False
calculate_distance(lat1, lon1, lat2, lon2) ==
  calculate_distance_haversine(lat1, lon1, lat2, lon2)

\* 20 km, the radius of the recommendation path, in metres
RecommendRadius == 20000

(***************************************************************************)
(* Queries.  db is the stored data:                                        *)
(*   [producers, dishes, user, orders, reviews]                            *)
(***************************************************************************)
\* sort key of a nullable numeric column under ORDER BY ... DESC
\* (SQLite, the configured database, sorts NULL below every value)
KeyOf(x) == IF x = NoneNum THEN -1 ELSE Val(x)

\* x or 0
OrZero(x) == IF x = NoneNum THEN 0 ELSE Val(x)

\* ORDER BY average_rating DESC, order_count DESC, view_count DESC;
\* rows that tie on all keys come in primary-key order
OrderBefore(ds, a, b) ==
  LET ka == << KeyOf(ds[a].average_rating), KeyOf(ds[a].order_count), KeyOf(ds[a].view_count) >>
      kb == << KeyOf(ds[b].average_rating), KeyOf(ds[b].order_count), KeyOf(ds[b].view_count) >>
  IN  \/ ka[1] > kb[1]
      \/ ka[1] = kb[1] /\ ka[2] > kb[2]
      \/ ka[1] = kb[1] /\ ka[2] = kb[2] /\ ka[3] > kb[3]
      \/ ka = kb /\ a < b

\* ORDER BY average_rating DESC, order_count DESC (the last-resort query)
OrderBefore2(ds, a, b) ==
  LET ka == << KeyOf(ds[a].average_rating), KeyOf(ds[a].order_count) >>
      kb == << KeyOf(ds[b].average_rating), KeyOf(ds[b].order_count) >>
  IN  \/ ka[1] > kb[1]
      \/ ka[1] = kb[1] /\ ka[2] > kb[2]
      \/ ka = kb /\ a < b

\* the ids of S as the sequence ordered by before, the set of the pairs
\* (a, b) in which row a comes before row b
SortBy(S, before) ==
  [i \in 1..Cardinality(S) |->
     CHOOSE a \in S : Cardinality({ b \in S : << b, a >> \in before }) = i - 1]

\* .limit(n); SQLite reads a negative LIMIT as no limit
Limit(seq, n) == IF n < 0 THEN seq ELSE SubSeq(seq, 1, Min(n, Len(seq)))

\* seq[:n] of a Python list: a negative n counts from the end
Slice(seq, n) == SubSeq(seq, 1, IF n < 0 THEN Len(seq) + n ELSE Min(n, Len(seq)))

\* query.order_by(rating, order_count, view_count).limit(n).all()
RunQuery(ds, S, n) ==
  LET before == { p \in S \X S : OrderBefore(ds, p[1], p[2]) }
  IN  Limit(SortBy(S, before), n)

\* Dish.query with no filter on availability
AllDishes(ds) == DOMAIN ds

\* Dish.query.filter_by(is_available=True)
AvailableDishes(ds) == { d \in DOMAIN ds : ds[d].is_available }

\* Producer.query.filter_by(status='approved', is_active=True)
EligibleProducers(ps) ==
  { p \in DOMAIN ps : ps[p].status = "approved" /\ ps[p].is_active }

\* a query that keeps every dietary type
DietaryAny(ds, S, u) == S

\* filter_by(dietary_type=user.dietary_preferences.lower())
DietaryIs(ds, S, u) == { d \in S : ds[d].dietary_type = Lower(u.dietary_preferences) }

\* filter_by(spice_level=user.spice_level.lower())
SpiceIs(ds, S, u) == { d \in S : ds[d].spice_level = Lower(u.spice_level) }

(***************************************************************************)
(* Candidate filter cascade                                                *)
(***************************************************************************)
\* the eligible producers that have coordinates, whatever their distance
NearbyProducerIdsAnyDistance(db, lat, lon) ==
  IF ~(TruthyNum(lat) /\ TruthyNum(lon)) THEN {}
  ELSE { p \in EligibleProducers(db.producers) :
           TruthyNum(db.producers[p].latitude) /\ TruthyNum(db.producers[p].longitude) }

\* STEP 1: the eligible producers within 20 km; {} also when no
\* coordinates are supplied
NearbyProducerIds(db, lat, lon) ==
  IF ~(TruthyNum(lat) /\ TruthyNum(lon)) THEN {}
  ELSE { p \in EligibleProducers(db.producers) :
           /\ TruthyNum(db.producers[p].latitude)
           /\ TruthyNum(db.producers[p].longitude)
           /\ LET distance == calculate_distance(lat, lon, db.producers[p].latitude,
                                                 db.producers[p].longitude)
              IN  TruthyNum(distance) /\ Val(distance) <= RecommendRadius }

\* STEP 2: the eligible producers whose specialty matches a preferred cuisine
\* a cuisine filter that lets every eligible kitchen through
EveryEligibleProducerId(db) == EligibleProducers(db.producers)

MatchingCuisineProducerIds(db) ==
  LET preferred_cuisines_list == get_preferred_cuisines_list(db.user)
  IN  { p \in EligibleProducers(db.producers) :
          /\ TruthyStr(db.producers[p].cuisine_specialty)
          /\ \E i \in DOMAIN preferred_cuisines_list :
               cuisine_matches(Strip(preferred_cuisines_list[i]),
                               db.producers[p].cuisine_specialty) }

\* the dietary type as a hard filter whenever the user has one
DietaryFilterAlways(u, cuisine_filter_applied) == TruthyStr(u.dietary_preferences)

\* is the dietary type a hard filter of the initial query: only when the
\* cuisine filter is not applied
DietaryFilterInitially(u, cuisine_filter_applied) ==
  ~cuisine_filter_applied /\ TruthyStr(u.dietary_preferences)

\* is the spice level a hard filter of the initial query
SpiceFilterInitially(u, cuisine_filter_applied) ==
  ~cuisine_filter_applied /\ TruthyStr(u.spice_level)

\* the rows of the query built by STEPs 1-4: every filter that is applied
\* is one more condition on the available dishes
FilteredDishes(db, nearby, matching, cuisine_filter_applied) ==
  { d \in AvailableDishes(db.dishes) :
      /\ nearby # {} => db.dishes[d].producer_id \in nearby
      /\ cuisine_filter_applied => db.dishes[d].producer_id \in matching
      /\ DietaryFilterInitially(db.user, cuisine_filter_applied)
           => d \in DietaryIs(db.dishes, { d }, db.user)
      /\ SpiceFilterInitially(db.user, cuisine_filter_applied)
           => d \in SpiceIs(db.dishes, { d }, db.user) }

\* the initial query and the flags it leaves
InitialQuery(db, limit, nearby, matching, cuisine_filter_applied) ==
  [ dishes |-> RunQuery(db.dishes,
                        FilteredDishes(db, nearby, matching, cuisine_filter_applied),
                        limit * 5),
    location_filter_applied |-> nearby # {},
    cuisine_filter_applied |-> cuisine_filter_applied,
    dietary_filter_applied |-> DietaryFilterInitially(db.user, cuisine_filter_applied),
    spice_filter_applied |-> SpiceFilterInitially(db.user, cuisine_filter_applied),
    level |-> 0 ]

\* the cuisine filter is applied when the user has preferred cuisines and
\* some eligible producer matches one
WithCuisineStage(db, limit, nearby, has_cuisines, matching) ==
  InitialQuery(db, limit, nearby, matching, has_cuisines /\ matching # {})

\* STEPs 1-4 and the initial query
InitialStage(db, lat, lon, limit) ==
  WithCuisineStage(db, limit, NearbyProducerIds(db, lat, lon),
                   Len(get_preferred_cuisines_list(db.user)) > 0,
                   MatchingCuisineProducerIds(db))

\* Fallback Level 1: drop the cuisine (and location) filter, apply dietary
\* and spice
FallbackLevel1(db, limit, st) ==
  IF st.dishes = << >> /\ st.cuisine_filter_applied
  THEN LET u == db.user
           ds == db.dishes
           hasDiet == TruthyStr(u.dietary_preferences)
           hasSpice == TruthyStr(u.spice_level)
           f1 == IF hasDiet THEN DietaryIs(ds, AvailableDishes(ds), u)
                 ELSE AvailableDishes(ds)
           f2 == IF hasSpice THEN SpiceIs(ds, f1, u) ELSE f1
       IN  [ st EXCEPT !.dishes = RunQuery(ds, f2, limit * 5),
                       !.dietary_filter_applied = @ \/ hasDiet,
                       !.spice_filter_applied = @ \/ hasSpice,
                       !.cuisine_filter_applied = FALSE,
                       !.level = 1 ]
  ELSE st

\* Fallback Level 2: drop the spice filter
FallbackLevel2(db, limit, st) ==
  IF st.dishes = << >> /\ st.spice_filter_applied
  THEN LET u == db.user
           ds == db.dishes
           f == IF st.dietary_filter_applied /\ TruthyStr(u.dietary_preferences)
                THEN DietaryIs(ds, AvailableDishes(ds), u)
                ELSE AvailableDishes(ds)
       IN  [ st EXCEPT !.dishes = RunQuery(ds, f, limit * 5),
                       !.spice_filter_applied = FALSE,
                       !.level = 2 ]
  ELSE st

\* Fallback Level 3: drop the dietary filter
FallbackLevel3(db, limit, st) ==
  IF st.dishes = << >> /\ st.dietary_filter_applied
  THEN [ st EXCEPT !.dishes = RunQuery(db.dishes, AvailableDishes(db.dishes), limit * 5),
                   !.dietary_filter_applied = FALSE,
                   !.level = 3 ]
  ELSE st

\* Fallback Level 4: any available dish
FallbackLevel4(db, limit, st) ==
  IF st.dishes = << >>
  THEN [ st EXCEPT !.dishes = RunQuery(db.dishes, AvailableDishes(db.dishes), limit * 5),
                   !.level = 4 ]
  ELSE st

\* the fallback levels, entered only when the initial query has no rows
Fallbacks(db, limit, st0) ==
  IF st0.dishes # << >> THEN st0
  ELSE FallbackLevel4(db, limit,
         FallbackLevel3(db, limit,
           FallbackLevel2(db, limit,
             FallbackLevel1(db, limit, st0))))

\* the candidate pool handed to the scorer, with the flags as they stand
\* when scoring starts
Cascade(db, lat, lon, limit) == Fallbacks(db, limit, InitialStage(db, lat, lon, limit))

\* the "last resort" query run when the pool is still empty
LastResort(db, limit) ==
  LET S == AvailableDishes(db.dishes)
      before == { p \in S \X S : OrderBefore2(db.dishes, p[1], p[2]) }
  IN  Limit(SortBy(S, before), limit)

(***************************************************************************)
(* Behaviour signals                                                       *)
(***************************************************************************)
\* Order.query.filter_by(customer_id=user.id, payment_status='paid')
UserOrders(db) ==
  { o \in db.orders : o.customer_id = db.user.id /\ o.payment_status = "paid" }

OrderedDishIds(db) == UNION { o.items : o \in UserOrders(db) }

\* a producer is recorded once per item of the order
OrderedProducerIds(db) == { o.producer_id : o \in { x \in UserOrders(db) : x.items # {} } }

\* visible reviews of the user with rating >= 4
LikedDishIds(db) ==
  { r.dish_id : r \in { x \in db.reviews :
      x.user_id = db.user.id /\ x.is_visible /\ x.rating >= 4 } }

(***************************************************************************)
(* Relevance scorer.  Scores are in hundredths.                            *)
(***************************************************************************)
kwGlutenFree == <<"g","l","u","t","e","n","-","f","r","e","e">>

kwLactoseFree == <<"l","a","c","t","o","s","e","-","f","r","e","e">>

kwJain == <<"j","a","i","n">>

kwGluten == <<"g","l","u","t","e","n">>

dairy_keywords ==
  { <<"d","a","i","r","y">>, <<"m","i","l","k">>, <<"c","r","e","a","m">>,
    <<"b","u","t","t","e","r">>, <<"c","h","e","e","s","e">>,
    <<"y","o","g","u","r","t">>, <<"c","u","r","d">> }

jain_avoid ==
  { <<"o","n","i","o","n">>, <<"g","a","r","l","i","c">>, <<"r","o","o","t">>,
    <<"p","o","t","a","t","o">>, <<"g","i","n","g","e","r">> }

kwLow == <<"l","o","w">>

kwMedium == <<"m","e","d","i","u","m">>

kwHigh == <<"h","i","g","h">>

\* x or ''
OrEmpty(s) == IF s = None THEN << >> ELSE s

\* the scorer's cuisine test of one dish: the producer is looked up by
\* primary key, whatever its status
DishCuisineMatches(db, d) ==
  LET preferred_cuisines_list == get_preferred_cuisines_list(db.user)
      pid == db.dishes[d].producer_id
  IN  /\ Len(preferred_cuisines_list) > 0
      /\ pid \in DOMAIN db.producers
      /\ TruthyStr(db.producers[pid].cuisine_specialty)
      /\ \E i \in DOMAIN preferred_cuisines_list :
           cuisine_matches(preferred_cuisines_list[i], db.producers[pid].cuisine_specialty)

\* cuisine contribution; the loop leaves at the first match, so
\* match_count is 1 whenever there is a match
CuisineScore(db, d, dish_cuisine_matches) ==
  LET preferred_cuisines_list == get_preferred_cuisines_list(db.user)
      pid == db.dishes[d].producer_id
      match_count == IF dish_cuisine_matches THEN 1 ELSE 0
  IN  IF Len(preferred_cuisines_list) = 0 THEN 0
      ELSE IF ~(pid \in DOMAIN db.producers /\ TruthyStr(db.producers[pid].cuisine_specialty))
           THEN 0
      ELSE IF match_count >= 1
           THEN 4000 + (IF match_count > 1 THEN 500 * (match_count - 1) ELSE 0)
      ELSE -2000

RatingScore(db, d) == OrZero(db.dishes[d].average_rating) * 100

PopularityScore(db, d) ==
  Min(OrZero(db.dishes[d].order_count) * 10, 2000)
    + Min(OrZero(db.dishes[d].view_count), 1000)

BehaviourScore(db, d) ==
  (IF db.dishes[d].producer_id \in OrderedProducerIds(db) THEN 2500 ELSE 0)
    + (IF d \in LikedDishIds(db) THEN 5000 ELSE 0)
    + (IF d \notin OrderedDishIds(db) THEN 500 ELSE 0)

\* a dietary score that takes no notice of the cuisine: +15 or -15
DietaryScoreFlat(db, d, cuisine_filter_applied, dish_cuisine_matches) ==
  IF ~TruthyStr(db.user.dietary_preferences) \/ ~TruthyStr(db.dishes[d].dietary_type) THEN 0
  ELSE IF Lower(db.dishes[d].dietary_type) = Lower(db.user.dietary_preferences) THEN 1500
  ELSE -1500

DietaryScore(db, d, cuisine_filter_applied, dish_cuisine_matches) ==
  LET u == db.user
      dish == db.dishes[d]
  IN  IF ~TruthyStr(u.dietary_preferences) THEN 0
      ELSE IF TruthyStr(dish.dietary_type)
              /\ Lower(dish.dietary_type) = Lower(u.dietary_preferences)
           THEN (IF cuisine_filter_applied \/ dish_cuisine_matches THEN 2000 ELSE 1500)
      ELSE IF TruthyStr(dish.dietary_type)
           THEN (IF dish_cuisine_matches THEN -500
                 ELSE IF cuisine_filter_applied THEN -1000
                 ELSE -1500)
      ELSE 0

SpiceScore(db, d, cuisine_filter_applied, dish_cuisine_matches) ==
  LET u == db.user
      dish == db.dishes[d]
  IN  IF ~TruthyStr(u.spice_level) THEN 0
      ELSE IF TruthyStr(dish.spice_level)
              /\ Lower(dish.spice_level) = Lower(u.spice_level)
           THEN (IF cuisine_filter_applied \/ dish_cuisine_matches THEN 1500 ELSE 1200)
      ELSE IF TruthyStr(dish.spice_level)
           THEN (IF dish_cuisine_matches THEN -200 ELSE -500)
      ELSE 0

MealScore(db, d) ==
  LET meal_preferences_list == get_meal_preferences_list(db.user)
      dish == db.dishes[d]
      dish_category_lower == Lower(OrEmpty(dish.category))
      meal_match ==
        \E i \in DOMAIN meal_preferences_list :
          \/ Contains(dish_category_lower, Lower(meal_preferences_list[i]))
          \/ Contains(Lower(meal_preferences_list[i]), dish_category_lower)
  IN  IF meal_preferences_list # << >> /\ TruthyStr(dish.category)
      THEN (IF meal_match THEN 1500 ELSE -500)
      ELSE 0

\* the dish price in GBP, in 1e-4 units (price is in hundredths)
DishPriceGbp(dish) ==
  IF dish.currency = "INR" \/ (dish.currency = "NULL" /\ dish.price > 5000)
  THEN dish.price
  ELSE dish.price * 100

\* Dish.to_dict: the price and currency shown for the dish; a converted
\* price is rounded to 2 decimals (hundredths of a pound; a tie, which no
\* price of the model is, goes to the even neighbour)
to_dict(dish) ==
  IF dish.currency = "INR" \/ (dish.currency = "NULL" /\ dish.price > 5000)
  THEN [ price |-> IF dish.price % 100 > 50
                      \/ (dish.price % 100 = 50 /\ (dish.price \div 100) % 2 = 1)
                   THEN dish.price \div 100 + 1 ELSE dish.price \div 100,
         currency |-> "GBP" ]
  ELSE [ price |-> dish.price, currency |-> dish.currency ]

\* tiers whose upper bounds are not part of them
BudgetScoreOpenTiers(db, d) ==
  LET dish_price_gbp == DishPriceGbp(db.dishes[d])
      budget_pref == Lower(db.user.budget_preference)
  IN  IF ~TruthyStr(db.user.budget_preference) THEN 0
      ELSE IF budget_pref = kwLow /\ dish_price_gbp < 100000 THEN 2500
      ELSE IF budget_pref = kwMedium /\ 100000 < dish_price_gbp /\ dish_price_gbp < 200000
           THEN 2500
      ELSE IF budget_pref = kwHigh /\ dish_price_gbp > 200000 THEN 2500
      ELSE IF budget_pref = kwLow /\ dish_price_gbp > 200000 THEN -4000
      ELSE IF budget_pref = kwHigh /\ dish_price_gbp < 100000 THEN -1500
      ELSE 0

BudgetScore(db, d) ==
  LET u == db.user
      dish_price_gbp == DishPriceGbp(db.dishes[d])
      budget_pref == Lower(u.budget_preference)
  IN  IF ~TruthyStr(u.budget_preference) THEN 0
      ELSE IF budget_pref = kwLow /\ dish_price_gbp <= 100000 THEN 2500
      ELSE IF budget_pref = kwMedium /\ 100000 < dish_price_gbp /\ dish_price_gbp <= 200000
           THEN 2500
      ELSE IF budget_pref = kwHigh /\ dish_price_gbp > 200000 THEN 2500
      ELSE IF budget_pref = kwLow /\ dish_price_gbp > 200000 THEN -4000
      ELSE IF budget_pref = kwHigh /\ dish_price_gbp < 100000 THEN -1500
      ELSE 0

RestrictionScore(db, d) ==
  LET dietary_restrictions_list == get_dietary_restrictions_list(db.user)
      dish == db.dishes[d]
      dish_desc == Lower(OrEmpty(dish.description) \o << " " >> \o OrEmpty(dish.ingredients))
      has(tag) == tag \in Range(dietary_restrictions_list)
  IN  (IF has(kwGlutenFree) /\ Contains(dish_desc, kwGluten) THEN -5000 ELSE 0)
        + (IF has(kwLactoseFree) /\ \E k \in dairy_keywords : Contains(dish_desc, k)
           THEN -5000 ELSE 0)
        + (IF has(kwJain) /\ \E k \in jain_avoid : Contains(dish_desc, k)
           THEN -5000 ELSE 0)

\* -60 for every avoided allergen that substring-matches a declared one
AllergenScore(db, d) ==
  LET allergens_list == get_allergens_list(db.user)
      dish_allergens == dish_get_allergens_list(db.dishes[d])
      hit(i) == \E j \in DOMAIN dish_allergens :
                  \/ Contains(Lower(dish_allergens[j]), Lower(allergens_list[i]))
                  \/ Contains(Lower(allergens_list[i]), Lower(dish_allergens[j]))
  IN  (0 - 6000) * Cardinality({ i \in DOMAIN allergens_list : hit(i) })

\* the scoring of the dish raises TypeError: a number is truthy, and the
\* loop over it or the test `in` on it fails ('int' object is not iterable)
ScoringRaises(db, d) ==
  \/ ReturnsNumber(db.user.meal_preferences) /\ TruthyStr(db.dishes[d].category)
  \/ ReturnsNumber(db.user.dietary_restrictions)
  \/ ReturnsNumber(db.user.allergens) /\ dish_get_allergens_list(db.dishes[d]) # << >>

\* the score of a dish when it reaches the inclusion rule
RawScore(db, d, cuisine_filter_applied, dish_cuisine_matches) ==
  CuisineScore(db, d, dish_cuisine_matches) + RatingScore(db, d)
    + PopularityScore(db, d) + BehaviourScore(db, d)
    + DietaryScore(db, d, cuisine_filter_applied, dish_cuisine_matches)
    + SpiceScore(db, d, cuisine_filter_applied, dish_cuisine_matches)
    + MealScore(db, d) + BudgetScore(db, d) + RestrictionScore(db, d)
    + AllergenScore(db, d)

\* inclusion rule: is a dish with this score appended to scored_dishes
IncludedAtThreshold(score, dish_cuisine_matches) == dish_cuisine_matches \/ score >= -3000

Included(score, dish_cuisine_matches) == dish_cuisine_matches \/ score > -3000

\* the score with which an included dish is appended
FinalScore(score, dish_cuisine_matches) ==
  IF dish_cuisine_matches /\ score < 2000 THEN 2000 ELSE score

\* what the scoring loop knows of a dish when it leaves the inclusion rule
ScoredEntry(d, dish_cuisine_matches, score) ==
  [ dish |-> d,
    raw |-> score,
    matches |-> dish_cuisine_matches,
    included |-> Included(score, dish_cuisine_matches),
    score |-> FinalScore(score, dish_cuisine_matches) ]

ScoreWithMatch(db, d, cuisine_filter_applied, dish_cuisine_matches) ==
  ScoredEntry(d, dish_cuisine_matches,
              RawScore(db, d, cuisine_filter_applied, dish_cuisine_matches))

\* one pass of the scoring loop
ScoreDish(db, d, cuisine_filter_applied) ==
  ScoreWithMatch(db, d, cuisine_filter_applied, DishCuisineMatches(db, d))

\* a descending sort that turns round the dishes of equal score
SortByScoreDescUnstable(seq) ==
  LET rank(i) == Cardinality({ j \in DOMAIN seq :
                    \/ seq[j].score > seq[i].score
                    \/ seq[j].score = seq[i].score /\ j > i })
  IN  [k \in DOMAIN seq |-> seq[CHOOSE i \in DOMAIN seq : rank(i) = k - 1]]

\* list.sort(key=score, reverse=True): stable, descending
SortByScoreDesc(seq) ==
  LET rank(i) == Cardinality({ j \in DOMAIN seq :
                    \/ seq[j].score > seq[i].score
                    \/ seq[j].score = seq[i].score /\ j < i })
  IN  [k \in DOMAIN seq |-> seq[CHOOSE i \in DOMAIN seq : rank(i) = k - 1]]

\* the scoring loop over the pool, one record per dish of the pool
ScoreAll(db, pool, cuisine_filter_applied) ==
  [i \in DOMAIN pool |-> ScoreDish(db, pool[i], cuisine_filter_applied)]

IsIncluded(e) == e.included

\* scored_dishes after the sort of line 573
ScoredDishes(evaluated) == SortByScoreDesc(SelectSeq(evaluated, IsIncluded))

(***************************************************************************)
(* Result composer                                                         *)
(***************************************************************************)
\* the composer's cuisine test (the preferred cuisine is stripped again)
IsCuisineMatch(db, d) ==
  LET preferred_cuisines_list == get_preferred_cuisines_list(db.user)
      pid == db.dishes[d].producer_id
  IN  /\ pid \in DOMAIN db.producers
      /\ TruthyStr(db.producers[pid].cuisine_specialty)
      /\ \E i \in DOMAIN preferred_cuisines_list :
           cuisine_matches(Strip(preferred_cuisines_list[i]),
                           db.producers[pid].cuisine_specialty)

DishIds(seq) == [i \in DOMAIN seq |-> seq[i].dish]

IsMatched(e) == e.is_cuisine_match

IsOther(e) == ~e.is_cuisine_match

\* the first limit dishes by score, with no partition by cuisine
TopByScore(db, scored_dishes, limit) == DishIds(Slice(scored_dishes, limit))

\* each scored dish with the composer's cuisine test
Tagged(db, scored_dishes) ==
  [i \in DOMAIN scored_dishes |->
     [ dish |-> scored_dishes[i].dish,
       score |-> scored_dishes[i].score,
       is_cuisine_match |-> IsCuisineMatch(db, scored_dishes[i].dish) ]]

\* the matched partition first, the others in the slots that remain
MatchedThenOthers(cuisine_matched_list, other_dishes_list, limit) ==
  IF Len(cuisine_matched_list) < limit /\ other_dishes_list # << >>
  THEN DishIds(Slice(cuisine_matched_list, limit))
         \o DishIds(Slice(other_dishes_list, limit - Len(cuisine_matched_list)))
  ELSE DishIds(Slice(cuisine_matched_list, limit))

Partitioned(tagged, limit) ==
  MatchedThenOthers(SortByScoreDesc(SelectSeq(tagged, IsMatched)),
                    SortByScoreDesc(SelectSeq(tagged, IsOther)), limit)

\* top_dishes before the fill step
TopDishes(db, scored_dishes, limit) ==
  IF Len(get_preferred_cuisines_list(db.user)) > 0
  THEN Partitioned(Tagged(db, scored_dishes), limit)
  ELSE DishIds(Slice(scored_dishes, limit))

\* the fill step of lines 614-624
FillStep(scored_dishes, top_dishes, limit) ==
  IF Len(top_dishes) < limit
  THEN LET notTaken(e) == e.dish \notin Range(top_dishes)
           above(e) == e.score > -2000
           remaining_with_scores == SortByScoreDesc(SelectSeq(scored_dishes, notTaken))
           remaining == DishIds(SelectSeq(remaining_with_scores, above))
       IN  top_dishes \o Slice(remaining, limit - Len(top_dishes))
  ELSE top_dishes

\* what the pipeline returns, with the pool that was scored and the
\* scorer's verdict on each dish of it
Outcome(st, evaluated, recommendations) ==
  [ recommendations |-> recommendations,
    pool |-> st.dishes,
    evaluated |-> evaluated,
    cuisine_filter_applied |-> st.cuisine_filter_applied,
    level |-> st.level,
    raised |-> FALSE ]

\* the pipeline left by an exception of the scoring loop
Raised(st) == [ Outcome(st, << >>, << >>) EXCEPT !.raised = TRUE ]

Composed(db, limit, st, evaluated, scored_dishes) ==
  Outcome(st, evaluated,
          FillStep(scored_dishes, TopDishes(db, scored_dishes, limit), limit))

Scored(db, limit, st, evaluated) ==
  Composed(db, limit, st, evaluated, ScoredDishes(evaluated))

\* the pipeline after the cascade
AfterCascade(db, limit, st) ==
  IF st.dishes = << >>
  THEN Outcome(st, << >>, LastResort(db, limit))
  ELSE IF \E i \in DOMAIN st.dishes : ScoringRaises(db, st.dishes[i])
  THEN Raised(st)
  ELSE Scored(db, limit, st, ScoreAll(db, st.dishes, st.cuisine_filter_applied))

\* get_rule_based_recommendations: the ids of the returned dishes
get_rule_based_recommendations(db, lat, lon, limit) ==
  AfterCascade(db, limit, Cascade(db, lat, lon, limit))

(***************************************************************************)
(* The recommendations endpoint                                            *)
(***************************************************************************)
\* what requests.post(..., timeout=2) and response.json() can do; body is
\* the parsed body of a usable answer (a list of dish ids)
ExtOutcomes ==
  { [exc |-> "ConnectionError", status_code |-> 0, json_ok |-> FALSE, body |-> << >>],
    [exc |-> "Timeout", status_code |-> 0, json_ok |-> FALSE, body |-> << >>],
    [exc |-> "none", status_code |-> 500, json_ok |-> TRUE, body |-> << >>],
    [exc |-> "none", status_code |-> 200, json_ok |-> FALSE, body |-> << >>],
    [exc |-> "none", status_code |-> 200, json_ok |-> TRUE, body |-> << 2, 1 >>] }

\* the try block returns the external body: no exception in the call,
\* status 200, and a body that response.json() parses
ExternalAnswers(ext) == ext.exc = "none" /\ ext.status_code = 200 /\ ext.json_ok

\* a handler that answers a non-200 status of the external service with
\* an error instead of falling back
get_recommendations_propagating(ext, rule_based) ==
  IF ExternalAnswers(ext)
  THEN [ status |-> 200, source |-> "external", recommendations |-> ext.body,
         pool |-> << >>, evaluated |-> << >>, cuisine_filter_applied |-> FALSE,
         level |-> 0 ]
  ELSE IF ext.exc = "none" /\ ext.status_code # 200
  THEN [ status |-> 502, source |-> "error", recommendations |-> << >>,
         pool |-> << >>, evaluated |-> << >>, cuisine_filter_applied |-> FALSE,
         level |-> 0 ]
  ELSE [ status |-> 200, source |-> "rule-based",
         recommendations |-> rule_based.recommendations,
         pool |-> rule_based.pool, evaluated |-> rule_based.evaluated,
         cuisine_filter_applied |-> rule_based.cuisine_filter_applied,
         level |-> rule_based.level ]

\* a handler whose fallback list depends on how the external call failed:
\* after a timeout it keeps only the first dish
get_recommendations_hurried(ext, rule_based) ==
  [ status |-> 200,
    source |-> IF ExternalAnswers(ext) THEN "external" ELSE "rule-based",
    recommendations |-> IF ExternalAnswers(ext) THEN ext.body
                        ELSE IF ext.exc = "Timeout"
                        THEN Slice(rule_based.recommendations, 1)
                        ELSE rule_based.recommendations,
    pool |-> IF ExternalAnswers(ext) THEN << >> ELSE rule_based.pool,
    evaluated |-> IF ExternalAnswers(ext) THEN << >> ELSE rule_based.evaluated,
    cuisine_filter_applied |-> ~ExternalAnswers(ext) /\ rule_based.cuisine_filter_applied,
    level |-> IF ExternalAnswers(ext) THEN 0 ELSE rule_based.level ]

\* get_recommendations for an authenticated, active user: the response.
\* rule_based is get_rule_based_recommendations(current_user, lat, lon, limit),
\* which the handler reaches only when the try block has not returned; it
\* is called outside the try block, so what it raises becomes a 500
get_recommendations(ext, rule_based) ==
  IF ExternalAnswers(ext)
  THEN [ status |-> 200, source |-> "external", recommendations |-> ext.body,
         pool |-> << >>, evaluated |-> << >>, cuisine_filter_applied |-> FALSE,
         level |-> 0 ]
  ELSE IF rule_based.raised
  THEN [ status |-> 500, source |-> "error", recommendations |-> << >>,
         pool |-> rule_based.pool, evaluated |-> << >>,
         cuisine_filter_applied |-> rule_based.cuisine_filter_applied,
         level |-> rule_based.level ]
  ELSE [ status |-> 200, source |-> "rule-based",
         recommendations |-> rule_based.recommendations,
         pool |-> rule_based.pool, evaluated |-> rule_based.evaluated,
         cuisine_filter_applied |-> rule_based.cuisine_filter_applied,
         level |-> rule_based.level ]

\* a call that counts a view of every dish it returns, as get_dish does
StoredWithViews(db, response) ==
  [ db EXCEPT !.dishes =
      [d \in DOMAIN db.dishes |->
         IF d \in Range(response.recommendations)
         THEN [ db.dishes[d] EXCEPT !.view_count = Some(OrZero(@) + 1) ]
         ELSE db.dishes[d]] ]

\* the stored data after a recommendation call: the call issues no
\* insert, update, delete or commit
StoredAfterRecommend(db, response) == db

(***************************************************************************)
(* State machine                                                           *)
(***************************************************************************)
\* probe: a pair (user cuisine, kitchen specialty) handed to the matcher;
\* verdict: the matcher's answer to it, NoVerdict before it has answered
NoVerdict == [ done |-> FALSE, value |-> FALSE ]

\* cuisine_matches applied to the probe
MatchCuisine ==
  /\ ~verdict.done
  /\ verdict' = [ done |-> TRUE, value |-> cuisine_matches(probe[1], probe[2]) ]
  /\ UNCHANGED << producers, dishes, user, orders, reviews, request, last, probe >>

DB == [ producers |-> producers, dishes |-> dishes, user |-> user,
        orders |-> orders, reviews |-> reviews ]

\* request: the query parameters lat, lon and limit of the client's
\* GET /recommendations request.
\* last: the most recent answer to it computed from the data as currently
\* stored, with the outcome of the external call; NoCall when there is none
NoCall == [ called |-> FALSE ]

CallRecord(ext, response) == [ called |-> TRUE, ext |-> ext, response |-> response ]

\* the handler returns: the stored data are as the call left them
Return(record, after) ==
  /\ last' = record
  /\ producers' = after.producers
  /\ dishes' = after.dishes
  /\ user' = after.user
  /\ orders' = after.orders
  /\ reviews' = after.reviews
  /\ UNCHANGED << request, probe, verdict >>

Respond(ext, response) ==
  Return(CallRecord(ext, response), StoredAfterRecommend(DB, response))

\* the outcome of the call to the external ranking service is the
\* environment's choice
Answer(rule_based) ==
  \E ext \in ExtOutcomes : Respond(ext, get_recommendations(ext, rule_based))

\* GET /recommendations?lat=&lon=&limit=
Recommend ==
  Answer(get_rule_based_recommendations(DB, request.lat, request.lon, request.limit))

\* PUT /dishes/<dish_id> with body {"is_available": avail}, by an admin
update_dish(dish_id, avail) ==
  /\ dish_id \in DOMAIN dishes
  /\ dishes' = [dishes EXCEPT ![dish_id].is_available = avail]
  /\ last' = NoCall
  /\ UNCHANGED << producers, user, orders, reviews, request, probe, verdict >>

(***************************************************************************)
(* Bounded data                                                            *)
(***************************************************************************)
SouthIndian == <<"S","o","u","t","h"," ","I","n","d","i","a","n">>

NorthIndian == <<"N","o","r","t","h"," ","I","n","d","i","a","n">>

Veg == <<"v","e","g">>

NonVeg == <<"n","o","n","-","v","e","g">>

Medium == <<"m","e","d","i","u","m">>

Mild == <<"m","i","l","d">>

Nuts == <<"n","u","t","s">>

Lunch == <<"L","u","n","c","h">>

Dinner == <<"D","i","n","n","e","r">>

\* the largest limit requested
MaxLimit == 2

\* the request coordinates: absent, or a point on the meridian of the kitchens
RequestCoords == { << NoneNum, NoneNum >>, << Some(1300), Some(7700) >> }

Requests ==
  { [ lat |-> c[1], lon |-> c[2], limit |-> n ] : c \in RequestCoords, n \in 0..MaxLimit }

\* kitchen 1 (South Indian): approved or still pending, 11 km or 222 km away
\* from the request point; kitchen 2 (North Indian): approved, 11 km away
ProducerTables ==
  { << [ status |-> st[1], is_active |-> st[2], cuisine_specialty |-> SouthIndian,
         latitude |-> Some(lat1), longitude |-> Some(7700) ],
       [ status |-> "approved", is_active |-> TRUE, cuisine_specialty |-> NorthIndian,
         latitude |-> Some(1310), longitude |-> Some(7700) ] >> :
      st \in { << "approved", TRUE >>, << "pending", FALSE >> }, lat1 \in { 1310, 1500 } }

\* dish 1: kitchen 1, veg, well rated; dish 2: kitchen 2, veg, the most
\* popular; dish 3: kitchen 1, non-veg, poorly rated, declares nuts.
\* Every subset of the three is available
DishTables ==
  { << [ producer_id |-> 1, is_available |-> av[1], dietary_type |-> Veg,
         spice_level |-> Medium, average_rating |-> Some(45), order_count |-> Some(12),
         view_count |-> Some(40), category |-> Lunch, price |-> 12000,
         currency |-> "INR", description |-> None, ingredients |-> None,
         allergens |-> NullText ],
       [ producer_id |-> 2, is_available |-> av[2], dietary_type |-> Veg,
         spice_level |-> Mild, average_rating |-> Some(50), order_count |-> Some(200),
         view_count |-> Some(1500), category |-> Dinner, price |-> 25000,
         currency |-> "INR", description |-> None, ingredients |-> None,
         allergens |-> NullText ],
       [ producer_id |-> 1, is_available |-> av[3], dietary_type |-> NonVeg,
         spice_level |-> Medium, average_rating |-> Some(10), order_count |-> Some(3),
         view_count |-> NoneNum, category |-> None, price |-> 1500,
         currency |-> "GBP", description |-> None, ingredients |-> None,
         allergens |-> JsonList(<< Nuts >>) ] >> :
      av \in BOOLEAN \X BOOLEAN \X BOOLEAN }

UserProfiles ==
  { [ id |-> 1, dietary_preferences |-> diet, spice_level |-> None,
      preferred_cuisines |-> cuis, dietary_restrictions |-> NullText,
      allergens |-> alg, meal_preferences |-> NullText,
      budget_preference |-> None ] :
      diet \in { None, Veg },
      cuis \in { NullText, JsonList(<< SouthIndian >>) },
      alg \in { NullText, JsonList(<< Nuts >>) } }

\* one paid order of dish 3 from kitchen 1, one unpaid order
OrderTable ==
  { [ customer_id |-> 1, payment_status |-> "paid", producer_id |-> 1, items |-> { 3 } ],
    [ customer_id |-> 1, payment_status |-> "pending", producer_id |-> 2, items |-> { 2 } ] }

\* one visible five-star review of dish 1
ReviewTable == { [ user_id |-> 1, dish_id |-> 1, rating |-> 5, is_visible |-> TRUE ] }

Init ==
  /\ producers \in ProducerTables
  /\ dishes \in DishTables
  /\ user \in UserProfiles
  /\ orders = OrderTable
  /\ reviews = ReviewTable
  /\ request \in Requests
  /\ last = NoCall
  /\ probe = << None, None >>
  /\ verdict = NoVerdict

Next ==
  \/ Recommend
  \/ \E d \in DOMAIN dishes, avail \in BOOLEAN : update_dish(d, avail)

Spec == Init /\ [][Next]_vars

(***************************************************************************)
(* The matcher on its own: cuisine_matches applied to one pair of strings  *)
(***************************************************************************)
\* cuisine strings as users and kitchens write them: plain names, regional
\* names, names of two regions, names of several words outside every group,
\* padded and empty strings, and no string
CuisineStrings ==
  { SouthIndian,
    NorthIndian,
    <<"T","a","m","i","l">>,
    <<"S","o","u","t","h"," ","I","n","d","i","a","n"," ","K","e","r","a","l","a">>,
    <<"N","o","r","t","h"," ","I","n","d","i","a","n"," ","P","u","n","j","a","b","i">>,
    <<"P","u","n","j","a","b","i">>,
    <<"P","u","n","j","a","b"," ","K","i","t","c","h","e","n">>,
    <<"N","o","r","t","h"," ","&"," ","S","o","u","t","h"," ","I","n","d","i","a","n">>,
    <<"C","h","i","n","e","s","e"," ","F","o","o","d">>,
    <<"I","n","d","o"," ","C","h","i","n","e","s","e">>,
    <<" "," ">>,
    << >>,
    <<" ","s","o","u","t","h"," ","i","n","d","i","a","n"," ">>,
    <<"G","u","j","a","r","a","t","i"," ","T","h","a","l","i">>,
    <<"T","a","m","i","l"," ","D","e","l","h","i">>,
    <<"T","h","a","i"," ","F","o","o","d">>,
    <<"G","o","a","n"," ","C","o","a","s","t","a","l"," ","S","e","a","f","o","o","d">>,
    <<"S","e","a","f","o","o","d"," ","G","r","i","l","l"," ","H","o","u","s","e">>,
    None }

InitMatcher ==
  /\ producers = << >>
  /\ dishes = << >>
  /\ user \in { u \in UserProfiles : u.dietary_preferences = None
                                     /\ u.preferred_cuisines = NullText
                                     /\ u.allergens = NullText }
  /\ orders = {}
  /\ reviews = {}
  /\ request = [ lat |-> NoneNum, lon |-> NoneNum, limit |-> 0 ]
  /\ last = NoCall
  /\ probe \in CuisineStrings \X CuisineStrings
  /\ verdict = NoVerdict

NextMatcher == MatchCuisine

SpecMatcher == InitMatcher /\ [][NextMatcher]_vars

(***************************************************************************)
(* Scoring scenarios: a catalog of two pairs of twin dishes.  The dishes   *)
(* of a pair differ in their declared allergens only.                      *)
(***************************************************************************)
\* kitchen 1: South Indian, or with no specialty recorded, approved or
\* still pending; kitchen 2: North Indian
ScoringProducers ==
  { << [ status |-> st, is_active |-> TRUE, cuisine_specialty |-> sp,
         latitude |-> Some(1310), longitude |-> Some(7700) ],
       [ status |-> "approved", is_active |-> TRUE, cuisine_specialty |-> NorthIndian,
         latitude |-> Some(1310), longitude |-> Some(7700) ] >> :
      sp \in { SouthIndian, None }, st \in { "approved", "pending" } }

\* dishes 1 and 2: kitchen 1, poorly rated, dish 1 declares nuts;
\* dishes 3 and 4: kitchen 2, rated 4.5 or 4.6, never ordered or viewed,
\* dish 3 declares nuts
ScoringDishes ==
  { << [ producer_id |-> 1, is_available |-> TRUE, dietary_type |-> NonVeg,
         spice_level |-> Medium, average_rating |-> Some(10), order_count |-> Some(3),
         view_count |-> NoneNum, category |-> None, price |-> 1500,
         currency |-> "GBP", description |-> None, ingredients |-> None,
         allergens |-> JsonList(<< Nuts >>) ],
       [ producer_id |-> 1, is_available |-> TRUE, dietary_type |-> NonVeg,
         spice_level |-> Medium, average_rating |-> Some(10), order_count |-> Some(3),
         view_count |-> NoneNum, category |-> None, price |-> 1500,
         currency |-> "GBP", description |-> None, ingredients |-> None,
         allergens |-> NullText ],
       [ producer_id |-> 2, is_available |-> TRUE, dietary_type |-> Veg,
         spice_level |-> Mild, average_rating |-> Some(r), order_count |-> Some(0),
         view_count |-> Some(0), category |-> Dinner, price |-> 25000,
         currency |-> "INR", description |-> None, ingredients |-> None,
         allergens |-> JsonList(<< Nuts >>) ],
       [ producer_id |-> 2, is_available |-> TRUE, dietary_type |-> Veg,
         spice_level |-> Mild, average_rating |-> Some(r), order_count |-> Some(0),
         view_count |-> Some(0), category |-> Dinner, price |-> 25000,
         currency |-> "INR", description |-> None, ingredients |-> None,
         allergens |-> NullText ] >> :
      r \in { 45, 46 } }

\* no cuisine, one cuisine, or two cuisines ("South Indian", "Tamil") that
\* both match a South Indian kitchen
ScoringProfiles ==
  { [ id |-> 1, dietary_preferences |-> diet, spice_level |-> None,
      preferred_cuisines |-> cuis, dietary_restrictions |-> NullText,
      allergens |-> alg, meal_preferences |-> NullText,
      budget_preference |-> None ] :
      diet \in { None, Veg },
      cuis \in { NullText, JsonList(<< SouthIndian >>), JsonList(<< SouthIndian, <<"T","a","m","i","l">> >>) },
      alg \in { NullText, JsonList(<< Nuts >>) } }

InitScoring ==
  /\ producers \in ScoringProducers
  /\ dishes \in ScoringDishes
  /\ user \in ScoringProfiles
  /\ orders = { [ customer_id |-> 1, payment_status |-> "paid", producer_id |-> 1, items |-> { 1, 2 } ] }
  /\ reviews = {}
  /\ request \in { r \in Requests : r.lat = NoneNum /\ r.limit >= 1 }
  /\ last = NoCall
  /\ probe = << None, None >>
  /\ verdict = NoVerdict

SpecScoring == InitScoring /\ [][Next]_vars

(***************************************************************************)
(* Cascade scenarios: the catalog of Init, users with a spice preference,  *)
(* and request points near the kitchens, on a kitchen, and far from all    *)
(***************************************************************************)
\* a spice level, "medium" as a dish has it or "hot" as no dish has it
CascadeProfiles ==
  { [ id |-> 1, dietary_preferences |-> diet, spice_level |-> spice,
      preferred_cuisines |-> cuis, dietary_restrictions |-> NullText,
      allergens |-> NullText, meal_preferences |-> NullText,
      budget_preference |-> None ] :
      diet \in { None, Veg },
      spice \in { None, Medium, <<"h","o","t">> },
      cuis \in { NullText, JsonList(<< SouthIndian >>) } }

\* no coordinates; 11 km south of the kitchens at latitude 13.10; the very
\* point of those kitchens; 433 km north of them
CascadeRequests ==
  { [ lat |-> c[1], lon |-> c[2], limit |-> n ] :
      c \in { << NoneNum, NoneNum >>, << Some(1300), Some(7700) >>,
              << Some(1310), Some(7700) >>, << Some(1700), Some(7700) >> },
      n \in 1..MaxLimit }

InitCascade ==
  /\ producers \in ProducerTables
  /\ dishes \in DishTables
  /\ user \in CascadeProfiles
  /\ orders = OrderTable
  /\ reviews = ReviewTable
  /\ request \in CascadeRequests
  /\ last = NoCall
  /\ probe = << None, None >>
  /\ verdict = NoVerdict

SpecCascade == InitCascade /\ [][Next]_vars

(***************************************************************************)
(* Malformed preferences: each list column of the user holds null, a JSON  *)
(* list, text that is not JSON, or a JSON number                           *)
(***************************************************************************)
MalformedProfiles ==
  { [ id |-> 1, dietary_preferences |-> None, spice_level |-> None,
      preferred_cuisines |-> cuis, dietary_restrictions |-> restr,
      allergens |-> alg, meal_preferences |-> meal,
      budget_preference |-> None ] :
      cuis \in { NullText, JsonList(<< SouthIndian >>), RawText(SouthIndian), JsonNumber(<< "5" >>) },
      restr \in { NullText, JsonNumber(<< "5" >>) },
      alg \in { NullText, JsonList(<< Nuts >>), RawText(Nuts), JsonNumber(<< "5" >>) },
      meal \in { NullText, JsonNumber(<< "5" >>) } }

InitMalformed ==
  /\ producers \in { ps \in ProducerTables : \A p \in DOMAIN ps : ps[p].status = "approved" }
  /\ dishes \in DishTables
  /\ user \in MalformedProfiles
  /\ orders = OrderTable
  /\ reviews = ReviewTable
  /\ request \in { r \in Requests : r.lat = NoneNum /\ r.limit >= 1 }
  /\ last = NoCall
  /\ probe = << None, None >>
  /\ verdict = NoVerdict

SpecMalformed == InitMalformed /\ [][Next]_vars

(***************************************************************************)
(* Preference scenarios: users with a meal-time preference, a budget tier  *)
(* and a dietary type; dish 1 priced around the tier bounds, dish 2 with   *)
(* no dietary type, dish 3 with no category                                *)
(***************************************************************************)
InitPreferences ==
  /\ producers \in { ps \in ProducerTables :
                       \A p \in DOMAIN ps : ps[p].status = "approved" /\ ps[p].latitude = Some(1310) }
  /\ \E t \in DishTables, pc \in { << 99900, "INR" >>, << 100000, "INR" >>, << 100040, "INR" >>,
                                  << 200000, "INR" >>, << 200100, "INR" >>, << 4000, "NULL" >>,
                                  << 150000, "NULL" >>, << 900, "GBP" >> } :
       /\ \A d \in DOMAIN t : t[d].is_available
       /\ dishes = [ t EXCEPT ![1].price = pc[1], ![1].currency = pc[2],
                              ![2].dietary_type = None ]
  /\ \E u \in UserProfiles, meal \in { NullText, JsonList(<< Lunch >>) },
        budget \in { None, kwLow, kwMedium, kwHigh } :
       /\ u.allergens = NullText
       /\ user = [ u EXCEPT !.meal_preferences = meal, !.budget_preference = budget ]
  /\ orders = OrderTable
  /\ reviews = ReviewTable
  /\ request \in { r \in Requests : r.lat = NoneNum /\ r.limit >= 1 }
  /\ last = NoCall
  /\ probe = << None, None >>
  /\ verdict = NoVerdict

SpecPreferences == InitPreferences /\ [][Next]_vars

(***************************************************************************)
(* Pool scenarios: six dishes, more than the cap of a request for one.     *)
(* Dishes 4 and 5 tie with dish 1 on the rating (dish 4 on the order count *)
(* too), dish 6 ties with dish 3 on both and has a view count of 0 where   *)
(* dish 3 has none.  The limit is 1, 2, ... or the -1 of ?limit=-1         *)
(***************************************************************************)
InitPool ==
  /\ producers \in { ps \in ProducerTables :
                       \A p \in DOMAIN ps : ps[p].status = "approved" /\ ps[p].latitude = Some(1310) }
  /\ \E t \in DishTables :
       /\ \A d \in DOMAIN t : t[d].is_available
       /\ dishes = t \o << [ t[1] EXCEPT !.view_count = Some(10) ],
                           [ t[1] EXCEPT !.order_count = Some(5) ],
                           [ t[3] EXCEPT !.view_count = Some(0), !.allergens = NullText ] >>
  /\ user \in { u \in UserProfiles : u.allergens = NullText }
  /\ orders = OrderTable
  /\ reviews = ReviewTable
  /\ request \in { r \in Requests : r.lat = NoneNum /\ r.limit >= 1 }
                   \cup { [ lat |-> NoneNum, lon |-> NoneNum, limit |-> -1 ] }
  /\ last = NoCall
  /\ probe = << None, None >>
  /\ verdict = NoVerdict

SpecPool == InitPool /\ [][Next]_vars

(***************************************************************************)
(* Properties                                                              *)
(***************************************************************************)
\* the last call was answered by the local pipeline
AnsweredLocally == last.called /\ last.response.source = "rule-based"

\* the dish's kitchen has a specialty that matches a preferred cuisine
PreferredVendor(d) ==
  LET preferred == get_preferred_cuisines_list(user)
      pid == dishes[d].producer_id
  IN  \E i \in DOMAIN preferred :
        cuisine_matches(preferred[i], producers[pid].cuisine_specialty)

EligibleVendor(d) ==
  LET pid == dishes[d].producer_id
  IN  producers[pid].status = "approved" /\ producers[pid].is_active

HasSub(s, sub) ==
  \E i \in 1..Len(s), j \in 1..Len(s) : i <= j /\ SubSeq(s, i, j) = sub

\* after lowercasing and trimming, s contains the word
Mentions(s, word) == s # None /\ HasSub(Strip(Lower(s)), word)

NorthSouthPair ==
  \/ Mentions(probe[1], kwNorth) /\ Mentions(probe[2], kwSouth)
  \/ Mentions(probe[1], kwSouth) /\ Mentions(probe[2], kwNorth)

\* C1: the list returned by the local pipeline has at most limit entries and
\* every entry is an available dish
C1_AtMostLimitAllAvailable ==
  AnsweredLocally =>
    /\ Len(last.response.recommendations) <= request.limit
    /\ \A i \in DOMAIN last.response.recommendations :
         dishes[last.response.recommendations[i]].is_available

\* C1 case: three dishes available, two asked for, two returned
C1_Witness ==
  /\ AnsweredLocally
  /\ \A d \in DOMAIN dishes : dishes[d].is_available
  /\ request.limit = 2
  /\ Len(last.response.recommendations) = 2

\* C2: with limit >= 1 and at least one available dish in the catalog the
\* list returned by the local pipeline is not empty
C2_NonEmptyWhenAnyAvailable ==
  (/\ AnsweredLocally
   /\ request.limit >= 1
   /\ \E d \in DOMAIN dishes : dishes[d].is_available)
    => last.response.recommendations # << >>

\* C3: when the user has preferred cuisines, no dish of a non-matching
\* kitchen is at an earlier position of the returned list than a dish of a
\* matching kitchen
C3_MatchedBeforeOthers ==
  (AnsweredLocally /\ Len(get_preferred_cuisines_list(user)) > 0) =>
    \A i, j \in DOMAIN last.response.recommendations :
      (/\ i < j
       /\ PreferredVendor(last.response.recommendations[j]))
        => PreferredVendor(last.response.recommendations[i])

\* C3 case: a returned list that holds a matching dish followed by a dish of
\* a non-matching kitchen that is rated higher
C3_Witness ==
  /\ AnsweredLocally
  /\ Len(get_preferred_cuisines_list(user)) > 0
  /\ Len(last.response.recommendations) = 2
  /\ PreferredVendor(last.response.recommendations[1])
  /\ ~PreferredVendor(last.response.recommendations[2])
  /\ KeyOf(dishes[last.response.recommendations[2]].average_rating)
       > KeyOf(dishes[last.response.recommendations[1]].average_rating)

\* C4: when the user has preferred cuisines and m >= 1 available dishes
\* belong to eligible kitchens with a matching specialty, the returned list
\* holds min(limit, m) dishes of matching kitchens, whatever the coordinates
\* and the dietary and spice preferences
C4_AllMatchesUpToLimit ==
  LET m == Cardinality({ d \in DOMAIN dishes :
                           /\ dishes[d].is_available
                           /\ EligibleVendor(d)
                           /\ PreferredVendor(d) })
      returned == Cardinality({ d \in Range(last.response.recommendations) :
                                  PreferredVendor(d) })
  IN  (/\ AnsweredLocally
       /\ Len(get_preferred_cuisines_list(user)) > 0
       /\ m >= 1)
        => returned >= Min(request.limit, m)

\* C5: cuisine_matches is false whenever one string mentions "north" and the
\* other mentions "south"
C5_NorthSouthNeverMatch ==
  (verdict.done /\ NorthSouthPair) => ~verdict.value

\* C5 case: a kitchen of both regions and a user of one of them, which share
\* a group, a substring and a word
C5_Witness ==
  /\ verdict.done
  /\ NorthSouthPair
  /\ Contains(normalize_cuisine_name(probe[2]), normalize_cuisine_name(probe[1]))
  /\ Mentions(probe[2], kwNorth) /\ Mentions(probe[2], kwSouth)
  /\ ~Mentions(probe[1], kwNorth)

\* C6: cuisine_matches is true for every non-conflicting pair in which both
\* strings contain a variant of one and the same cuisine group
C6_SharedGroupMatches ==
  (/\ verdict.done
   /\ probe[1] # None /\ probe[2] # None
   /\ ~NorthSouthPair
   /\ \E g \in DOMAIN cuisine_groups :
        /\ \E k \in DOMAIN cuisine_groups[g].variants :
             HasSub(Strip(Lower(probe[1])), cuisine_groups[g].variants[k])
        /\ \E k \in DOMAIN cuisine_groups[g].variants :
             HasSub(Strip(Lower(probe[2])), cuisine_groups[g].variants[k]))
    => verdict.value

\* C7: whenever the external call does anything but answer with status 200
\* and a parsable body, the response is the local pipeline's list for the
\* same request, with status 200
C7_FallbackOnEveryFailure ==
  (last.called /\ ~ExternalAnswers(last.ext)) =>
    /\ last.response.status = 200
    /\ last.response.source = "rule-based"
    /\ last.response.recommendations =
         get_rule_based_recommendations(DB, request.lat, request.lon,
                                        request.limit).recommendations

\* C7 case: the external service answered with status 500 and the caller
\* received a non-empty list
C7_Witness ==
  /\ last.called
  /\ last.ext.exc = "none" /\ last.ext.status_code = 500
  /\ last.response.recommendations # << >>

C9_CallLeavesDataUnchanged ==
  [][last'.called => UNCHANGED << producers, dishes, user, orders, reviews >>]_vars

\* C9 case: a call has returned dishes, one of them with no view counted yet
C9_Witness ==
  /\ last.called
  /\ \E i \in DOMAIN last.response.recommendations :
       dishes[last.response.recommendations[i]].view_count = NoneNum

\* C10: every dish that is pooled, scored or returned by the local pipeline
\* is available and belongs to an approved, active kitchen
C10_OnlyEligibleVendors ==
  AnsweredLocally =>
    \A d \in Range(last.response.pool) \cup Range(last.response.recommendations) :
      dishes[d].is_available /\ EligibleVendor(d)

\* C11: of two twin dishes ranked in one call (alike in every column but the
\* declared allergens, and alike in what the user ordered and liked), the
\* one whose allergens overlap the user's is ranked with a score at least 60
\* lower than the other, matched to a preferred cuisine or not
C11_AllergenCostsSixty ==
  LET Twins(a, b) ==
        /\ [ dishes[a] EXCEPT !.allergens = NullText ] = [ dishes[b] EXCEPT !.allergens = NullText ]
        /\ a \in OrderedDishIds(DB) <=> b \in OrderedDishIds(DB)
        /\ a \in LikedDishIds(DB) <=> b \in LikedDishIds(DB)
      Overlaps(d) ==
        \E i \in DOMAIN get_allergens_list(user), j \in DOMAIN dish_get_allergens_list(dishes[d]) :
          \/ HasSub(Lower(dish_get_allergens_list(dishes[d])[j]), Lower(get_allergens_list(user)[i]))
          \/ HasSub(Lower(get_allergens_list(user)[i]), Lower(dish_get_allergens_list(dishes[d])[j]))
  IN  AnsweredLocally =>
        \A i, j \in DOMAIN last.response.evaluated :
          (/\ last.response.evaluated[i].included
           /\ last.response.evaluated[j].included
           /\ Twins(last.response.evaluated[i].dish, last.response.evaluated[j].dish)
           /\ Overlaps(last.response.evaluated[i].dish)
           /\ ~Overlaps(last.response.evaluated[j].dish))
            => last.response.evaluated[i].score + 6000 <= last.response.evaluated[j].score

\* C12: a scored dish of a kitchen that matches a preferred cuisine is always
\* kept, with the larger of its computed score and 20; any other scored dish
\* is kept exactly when its computed score is above -30, with that score; a
\* dish that is not kept is not recommended
C12_InclusionRule ==
  AnsweredLocally =>
    \A i \in DOMAIN last.response.evaluated :
      /\ PreferredVendor(last.response.evaluated[i].dish) =>
           /\ last.response.evaluated[i].included
           /\ last.response.evaluated[i].score
                = IF last.response.evaluated[i].raw < 2000 THEN 2000 ELSE last.response.evaluated[i].raw
      /\ ~PreferredVendor(last.response.evaluated[i].dish) =>
           /\ last.response.evaluated[i].included <=> last.response.evaluated[i].raw > -3000
           /\ last.response.evaluated[i].score = last.response.evaluated[i].raw
      /\ ~last.response.evaluated[i].included =>
           \A k \in DOMAIN last.response.recommendations :
             last.response.recommendations[k] # last.response.evaluated[i].dish

\* a call in which one dish of a non-matching kitchen computes exactly -30
\* and is dropped, and another computes a negative score above -30 and is
\* kept
C12_Witness ==
  /\ AnsweredLocally
  /\ \E i \in DOMAIN last.response.evaluated :
       /\ ~PreferredVendor(last.response.evaluated[i].dish)
       /\ last.response.evaluated[i].raw = -3000
       /\ ~last.response.evaluated[i].included
  /\ \E i \in DOMAIN last.response.evaluated :
       /\ ~PreferredVendor(last.response.evaluated[i].dish)
       /\ last.response.evaluated[i].raw > -3000
       /\ last.response.evaluated[i].raw < 0
       /\ last.response.evaluated[i].included

\* C19: a scored dish whose kitchen's specialty matches k >= 1 distinct
\* preferred cuisines of the user has a cuisine contribution of
\* 40 + 5 * (k - 1)
C19_FivePerFurtherMatch ==
  LET preferred == get_preferred_cuisines_list(user)
      Matching(d) == { preferred[i] : i \in { j \in DOMAIN preferred :
                         cuisine_matches(preferred[j], producers[dishes[d].producer_id].cuisine_specialty) } }
  IN  AnsweredLocally =>
        \A i \in DOMAIN last.response.evaluated :
          Matching(last.response.evaluated[i].dish) # {} =>
            CuisineScore(DB, last.response.evaluated[i].dish, DishCuisineMatches(DB, last.response.evaluated[i].dish))
              = 4000 + 500 * (Cardinality(Matching(last.response.evaluated[i].dish)) - 1)

\* C20: when the user has a preferred cuisine, every scored dish of a kitchen
\* that matches none of them has a cuisine contribution of -20, a kitchen
\* without a recorded specialty included; when the user has no preferred
\* cuisine the contribution is 0
C20_MinusTwentyWithoutMatch ==
  AnsweredLocally =>
    \A i \in DOMAIN last.response.evaluated :
      CuisineScore(DB, last.response.evaluated[i].dish, DishCuisineMatches(DB, last.response.evaluated[i].dish))
        = IF Len(get_preferred_cuisines_list(user)) = 0 THEN 0
          ELSE IF PreferredVendor(last.response.evaluated[i].dish) THEN 4000
          ELSE -2000

\* C13: when the initial query finds nothing, the pool handed to the scorer
\* is that of the first of these queries that finds a dish: (i) available,
\* of the user's dietary type and spice level; (ii) available, of the user's
\* dietary type; (iii) and (iv) available; when the initial query finds a
\* dish the pool is its result
C13_FirstRelaxationThatYields ==
  LET OfDiet(S) == IF TruthyStr(user.dietary_preferences) THEN DietaryIs(dishes, S, user) ELSE S
      OfSpice(S) == IF TruthyStr(user.spice_level) THEN SpiceIs(dishes, S, user) ELSE S
      first == InitialStage(DB, request.lat, request.lon, request.limit).dishes
      relaxed1 == RunQuery(dishes, OfSpice(OfDiet(AvailableDishes(dishes))), request.limit * 5)
      relaxed2 == RunQuery(dishes, OfDiet(AvailableDishes(dishes)), request.limit * 5)
      relaxed3 == RunQuery(dishes, AvailableDishes(dishes), request.limit * 5)
  IN  AnsweredLocally =>
        last.response.pool = IF first # << >> THEN first
                             ELSE IF relaxed1 # << >> THEN relaxed1
                             ELSE IF relaxed2 # << >> THEN relaxed2
                             ELSE relaxed3

\* an eligible kitchen with coordinates lies on the great circle within
\* 20 km of the request point
WithinRadius(p) ==
  /\ p \in EligibleProducers(producers)
  /\ producers[p].latitude # NoneNum /\ producers[p].longitude # NoneNum
  /\ request.lat # NoneNum /\ request.lon # NoneNum
  /\ Abs(Val(producers[p].latitude) - Val(request.lat)) * MetersPerCentiDegree <= RecommendRadius

\* C14: the pool of a call with coordinates is non-empty whenever the pool of
\* the same call without coordinates is, and when no eligible kitchen lies
\* within 20 km the pool is that of the call without coordinates
C14_GeographyNeverEmpties ==
  AnsweredLocally =>
    /\ get_rule_based_recommendations(DB, NoneNum, NoneNum, request.limit).pool # << >>
         => last.response.pool # << >>
    /\ (\A p \in DOMAIN producers : ~WithinRadius(p))
         => last.response.pool
              = get_rule_based_recommendations(DB, NoneNum, NoneNum, request.limit).pool

\* a call from a point with no kitchen within 20 km whose initial query
\* pools two dishes or more
C14_Witness ==
  /\ AnsweredLocally
  /\ request.lat # NoneNum
  /\ \A p \in DOMAIN producers : ~WithinRadius(p)
  /\ Len(last.response.pool) >= 2
  /\ last.response.level = 0

\* the dish's kitchen is eligible and its specialty matches a preferred
\* cuisine of the user
QualifyingVendor(d) == EligibleVendor(d) /\ PreferredVendor(d)

\* C16: when the user has a preferred cuisine and an eligible kitchen matches
\* it, the initial query holds only available dishes of qualifying kitchens
\* and loses none of them to the dietary type or the spice level: up to the
\* pool cap it holds every available dish of a matching kitchen that the
\* location stage lets through; with no coordinates each of them is scored,
\* kept, and returned up to limit
C16_CuisineBranchKeepsAllDiets ==
  LET through == { d \in AvailableDishes(dishes) :
                     /\ QualifyingVendor(d)
                     /\ NearbyProducerIds(DB, request.lat, request.lon) # {}
                          => dishes[d].producer_id \in NearbyProducerIds(DB, request.lat, request.lon) }
  IN  (/\ AnsweredLocally
       /\ Len(get_preferred_cuisines_list(user)) > 0
       /\ \E d \in DOMAIN dishes : QualifyingVendor(d)
       /\ through # {}) =>
        /\ last.response.level = 0
        /\ Range(last.response.pool) \subseteq through
        /\ Len(last.response.pool) = Min(Cardinality(through), request.limit * 5)
        /\ request.lat = NoneNum =>
             /\ \A d \in Range(last.response.pool) :
                  \E i \in DOMAIN last.response.evaluated :
                    last.response.evaluated[i].dish = d /\ last.response.evaluated[i].included
             /\ Len(last.response.recommendations) = Min(Len(last.response.pool), request.limit)
             /\ Range(last.response.recommendations) \subseteq Range(last.response.pool)

\* a user who prefers South Indian, veg and hot is recommended the non-veg,
\* medium dish of the South Indian kitchen
C16_Witness ==
  /\ AnsweredLocally
  /\ request.lat = NoneNum
  /\ TruthyStr(user.dietary_preferences) /\ TruthyStr(user.spice_level)
  /\ \E k \in DOMAIN last.response.recommendations :
       /\ QualifyingVendor(last.response.recommendations[k])
       /\ dishes[last.response.recommendations[k]].dietary_type # Lower(user.dietary_preferences)
       /\ dishes[last.response.recommendations[k]].spice_level # Lower(user.spice_level)

\* C17: the initial query filters on the user's dietary type and spice level
\* exactly when the user has no preferred cuisine or no eligible kitchen
\* matches one: then every dish of a non-empty initial result has the user's
\* dietary type if one is set and the user's spice level if one is set, and
\* an unset preference removes nothing; otherwise neither removes anything
C17_DietSpiceFilterOnlyWithoutCuisine ==
  LET located == { d \in AvailableDishes(dishes) :
                     NearbyProducerIds(DB, request.lat, request.lon) # {}
                       => dishes[d].producer_id \in NearbyProducerIds(DB, request.lat, request.lon) }
      cuisineBranch == /\ Len(get_preferred_cuisines_list(user)) > 0
                       /\ \E p \in EligibleProducers(producers), i \in DOMAIN get_preferred_cuisines_list(user) :
                            cuisine_matches(get_preferred_cuisines_list(user)[i], producers[p].cuisine_specialty)
      wanted == { d \in located :
                    /\ user.dietary_preferences # None
                         => dishes[d].dietary_type = Lower(user.dietary_preferences)
                    /\ user.spice_level # None
                         => dishes[d].spice_level = Lower(user.spice_level) }
  IN  (AnsweredLocally /\ last.response.level = 0 /\ last.response.pool # << >>) =>
        IF cuisineBranch
        THEN /\ Range(last.response.pool) \subseteq { d \in located : QualifyingVendor(d) }
             /\ Len(last.response.pool)
                  = Min(Cardinality({ d \in located : QualifyingVendor(d) }), request.limit * 5)
        ELSE /\ Range(last.response.pool) \subseteq wanted
             /\ Len(last.response.pool) = Min(Cardinality(wanted), request.limit * 5)

\* a user without a preferred cuisine who wants veg and medium: the initial
\* query holds the veg, medium dish and leaves out an available dish that is
\* veg but mild
C17_Witness ==
  /\ AnsweredLocally
  /\ last.response.level = 0
  /\ Len(get_preferred_cuisines_list(user)) = 0
  /\ user.dietary_preferences = Veg /\ user.spice_level = Medium
  /\ last.response.pool # << >>
  /\ \E d \in AvailableDishes(dishes) :
       /\ d \notin Range(last.response.pool)
       /\ dishes[d].dietary_type = Veg
       /\ dishes[d].spice_level = Mild

\* C18: when coordinates are supplied, the location stage's set of nearby
\* kitchens is the set of eligible kitchens with coordinates whose
\* great-circle distance from the request point is at most 20 km, the
\* distance 0 included
C18_NearbyIsWithinTwentyKm ==
  (AnsweredLocally /\ request.lat # NoneNum /\ request.lon # NoneNum) =>
    NearbyProducerIds(DB, request.lat, request.lon) = { p \in DOMAIN producers : WithinRadius(p) }

\* C15: a call that the local pipeline answers for a user with malformed
\* list columns (text that json.loads rejects, or a JSON number) completes
\* with status 200 and returns what it returns for the same user with those
\* columns empty
C15_MalformedIsEmpty ==
  LET Malformed(t) == t.kind \in { "text", "number" }
      emptied == [ f \in DOMAIN user |->
                     IF f \in { "preferred_cuisines", "meal_preferences", "allergens",
                                "dietary_restrictions" } /\ Malformed(user[f])
                     THEN NullText ELSE user[f] ]
  IN  (last.called /\ ~ExternalAnswers(last.ext)) =>
        /\ last.response.status = 200
        /\ last.response.recommendations
             = get_rule_based_recommendations([ DB EXCEPT !.user = emptied ], request.lat,
                                              request.lon, request.limit).recommendations

\* C21: when the user has a meal-time preference, every scored dish gets +15
\* if a preference contains or is contained in the dish's category, letter
\* case aside, and -5 otherwise, a dish with no category included; with no
\* meal-time preference the contribution is 0
C21_MealAlignment ==
  LET prefs == get_meal_preferences_list(user)
      category(d) == Lower(OrEmpty(dishes[d].category))
      aligned(d) == \E i \in DOMAIN prefs :
                      \/ HasSub(category(d), Lower(prefs[i]))
                      \/ HasSub(Lower(prefs[i]), category(d))
  IN  AnsweredLocally =>
        \A i \in DOMAIN last.response.evaluated :
          MealScore(DB, last.response.evaluated[i].dish)
            = IF prefs = << >> THEN 0
              ELSE IF aligned(last.response.evaluated[i].dish) THEN 1500
              ELSE -500

\* C22: with p the dish's price in pounds (a price in INR, or with no
\* currency and above 50, divided by 100), the budget contribution is +25
\* for tier low and p <= 10, medium and 10 < p <= 20, high and p > 20; -40
\* for low and p > 20; -15 for high and p < 10; 0 otherwise.  The price shown
\* for a returned dish is converted in the same cases and is p to the
\* nearest penny (price_gbp is p in 1e-4 pounds)
C22_BudgetTiers ==
  LET converted(d) == dishes[d].currency = "INR" \/ (dishes[d].currency = "NULL" /\ dishes[d].price > 5000)
      price_gbp(d) == IF converted(d) THEN dishes[d].price ELSE dishes[d].price * 100
      tier == IF user.budget_preference = None THEN None ELSE Lower(user.budget_preference)
      expected(d) == IF tier = kwLow /\ price_gbp(d) <= 10 * 10000 THEN 2500
                     ELSE IF tier = kwMedium /\ price_gbp(d) > 10 * 10000 /\ price_gbp(d) <= 20 * 10000 THEN 2500
                     ELSE IF tier = kwHigh /\ price_gbp(d) > 20 * 10000 THEN 2500
                     ELSE IF tier = kwLow /\ price_gbp(d) > 20 * 10000 THEN -4000
                     ELSE IF tier = kwHigh /\ price_gbp(d) < 10 * 10000 THEN -1500
                     ELSE 0
  IN  AnsweredLocally =>
        /\ \A i \in DOMAIN last.response.evaluated :
             BudgetScore(DB, last.response.evaluated[i].dish) = expected(last.response.evaluated[i].dish)
        /\ \A k \in DOMAIN last.response.recommendations :
             IF converted(last.response.recommendations[k])
             THEN /\ to_dict(dishes[last.response.recommendations[k]]).currency = "GBP"
                  /\ Abs(to_dict(dishes[last.response.recommendations[k]]).price * 100
                           - price_gbp(last.response.recommendations[k])) <= 50
             ELSE /\ to_dict(dishes[last.response.recommendations[k]]).currency
                       = dishes[last.response.recommendations[k]].currency
                  /\ to_dict(dishes[last.response.recommendations[k]]).price * 100
                       = price_gbp(last.response.recommendations[k])

\* a low-tier user is recommended a dish of exactly 10.00 pounds (1000.00
\* INR), which is scored +25 and shown as 10.00 GBP
C22_Witness ==
  /\ AnsweredLocally
  /\ user.budget_preference = kwLow
  /\ \E k \in DOMAIN last.response.recommendations :
       /\ dishes[last.response.recommendations[k]].currency = "INR"
       /\ dishes[last.response.recommendations[k]].price = 100000
       /\ BudgetScore(DB, last.response.recommendations[k]) = 2500
       /\ to_dict(dishes[last.response.recommendations[k]]) = [ price |-> 1000, currency |-> "GBP" ]

\* C23 as first stated: every dish whose dietary type is not the user's,
\* a dish with no dietary type included, gets one of the three penalties
C23_DietaryAlignmentOfEveryDish ==
  AnsweredLocally =>
    \A i \in DOMAIN last.response.evaluated :
      DietaryScore(DB, last.response.evaluated[i].dish, last.response.cuisine_filter_applied,
                   PreferredVendor(last.response.evaluated[i].dish))
        = IF user.dietary_preferences = None THEN 0
          ELSE IF Lower(dishes[last.response.evaluated[i].dish].dietary_type) = Lower(user.dietary_preferences)
               THEN (IF last.response.cuisine_filter_applied \/ PreferredVendor(last.response.evaluated[i].dish)
                     THEN 2000 ELSE 1500)
          ELSE IF PreferredVendor(last.response.evaluated[i].dish) THEN -500
          ELSE IF last.response.cuisine_filter_applied THEN -1000
          ELSE -1500

\* C23: when the user has a dietary type, a scored dish of that type gets
\* +20 if it is cuisine-matched or the cuisine filter is applied and +15
\* otherwise; a dish of another type gets -5 if it is cuisine-matched, -10 if
\* the cuisine filter is applied and it is not matched, -15 otherwise; a dish
\* with no dietary type gets 0, as every dish does when the user has no
\* dietary type
C23_DietaryAlignment ==
  AnsweredLocally =>
    \A i \in DOMAIN last.response.evaluated :
      DietaryScore(DB, last.response.evaluated[i].dish, last.response.cuisine_filter_applied,
                   PreferredVendor(last.response.evaluated[i].dish))
        = IF user.dietary_preferences = None \/ dishes[last.response.evaluated[i].dish].dietary_type = None
          THEN 0
          ELSE IF Lower(dishes[last.response.evaluated[i].dish].dietary_type) = Lower(user.dietary_preferences)
               THEN (IF last.response.cuisine_filter_applied \/ PreferredVendor(last.response.evaluated[i].dish)
                     THEN 2000 ELSE 1500)
          ELSE IF PreferredVendor(last.response.evaluated[i].dish) THEN -500
          ELSE IF last.response.cuisine_filter_applied THEN -1000
          ELSE -1500

\* a veg user's call that falls back to every available dish and scores a
\* non-veg dish at -15 and a dish with no dietary type at 0
C23_Witness ==
  /\ AnsweredLocally
  /\ user.dietary_preferences = Veg
  /\ \E j, k \in DOMAIN last.response.evaluated :
       /\ dishes[last.response.evaluated[j].dish].dietary_type = NonVeg
       /\ DietaryScore(DB, last.response.evaluated[j].dish, last.response.cuisine_filter_applied,
                       PreferredVendor(last.response.evaluated[j].dish)) = -1500
       /\ dishes[last.response.evaluated[k].dish].dietary_type = None
       /\ DietaryScore(DB, last.response.evaluated[k].dish, last.response.cuisine_filter_applied,
                       PreferredVendor(last.response.evaluated[k].dish)) = 0

\* C24: of two neighbours of the returned list that are both cuisine-matched
\* or both not (any two neighbours when the user has no preferred cuisine),
\* the first has the higher score, or the same score and the earlier place
\* in the pool the cascade delivered
C24_RankedByScoreStable ==
  LET entry(d) == CHOOSE i \in DOMAIN last.response.evaluated : last.response.evaluated[i].dish = d
      score(d) == last.response.evaluated[entry(d)].score
      place(d) == CHOOSE i \in DOMAIN last.response.pool : last.response.pool[i] = d
      matched(d) == Len(get_preferred_cuisines_list(user)) > 0 /\ PreferredVendor(d)
  IN  AnsweredLocally /\ last.response.pool # << >> =>
        \A k \in 1..(Len(last.response.recommendations) - 1) :
          matched(last.response.recommendations[k]) = matched(last.response.recommendations[k + 1])
            => \/ score(last.response.recommendations[k]) > score(last.response.recommendations[k + 1])
               \/ /\ score(last.response.recommendations[k]) = score(last.response.recommendations[k + 1])
                  /\ place(last.response.recommendations[k]) < place(last.response.recommendations[k + 1])

\* a list that starts with two cuisine-matched twins of equal score
C24_Witness ==
  /\ AnsweredLocally
  /\ Len(last.response.recommendations) >= 2
  /\ PreferredVendor(last.response.recommendations[1])
  /\ PreferredVendor(last.response.recommendations[2])
  /\ \E i, j \in DOMAIN last.response.evaluated :
       /\ last.response.evaluated[i].dish = last.response.recommendations[1]
       /\ last.response.evaluated[j].dish = last.response.recommendations[2]
       /\ i < j
       /\ last.response.evaluated[i].score = last.response.evaluated[j].score

\* C25: for two strings that are not a north/south pair, share no cuisine
\* group, are not equal and of which neither contains the other,
\* cuisine_matches is true exactly when their words, the noise words
\* removed, have a common word and the common words are at least half as
\* many as the words of the string with fewer words
C25_WordOverlapDecides ==
  LET a == Strip(Lower(probe[1]))
      b == Strip(Lower(probe[2]))
      InGroup(s, g) == \E k \in DOMAIN cuisine_groups[g].variants : HasSub(s, cuisine_groups[g].variants[k])
      words(s) == SplitWords(s) \ { <<"i","n","d","i","a","n">>, <<"c","u","i","s","i","n","e">>,
                                   <<"f","o","o","d">>, <<"s","t","y","l","e">>,
                                   <<"c","o","o","k","i","n","g">> }
      common == words(a) \cap words(b)
  IN  (/\ verdict.done
       /\ probe[1] # None /\ probe[2] # None
       /\ ~NorthSouthPair
       /\ \A g \in DOMAIN cuisine_groups : ~(InGroup(a, g) /\ InGroup(b, g))
       /\ a # b /\ a # << >> /\ b # << >>
       /\ ~HasSub(a, b) /\ ~HasSub(b, a))
        => (verdict.value <=> /\ common # {}
                              /\ 2 * Cardinality(common) >= Min(Cardinality(words(a)), Cardinality(words(b))))

\* two strings of three words each with one word in common: not a match
C25_Witness ==
  /\ verdict.done /\ ~verdict.value
  /\ probe[1] # None /\ probe[2] # None
  /\ Cardinality(SplitWords(Lower(probe[1]))) = 3
  /\ Cardinality(SplitWords(Lower(probe[2]))) = 3
  /\ Cardinality(SplitWords(Lower(probe[1])) \cap SplitWords(Lower(probe[2]))) = 1

\* C29: cuisine_matches gives the same answer when its two arguments change
\* places
C29_Symmetric ==
  verdict.done => (verdict.value <=> cuisine_matches(probe[2], probe[1]))

\* a match found because the second string is contained in the first, which
\* is not contained in the second
C29_Witness ==
  /\ verdict.done /\ verdict.value
  /\ probe[1] # None /\ probe[2] # None
  /\ Contains(normalize_cuisine_name(probe[1]), normalize_cuisine_name(probe[2]))
  /\ ~Contains(normalize_cuisine_name(probe[2]), normalize_cuisine_name(probe[1]))

\* C30: cuisine_matches is false whenever one of its arguments is missing,
\* empty, or made of whitespace only
C30_BlankMatchesNothing ==
  (verdict.done /\ (normalize_cuisine_name(probe[1]) = << >> \/ normalize_cuisine_name(probe[2]) = << >>))
    => ~verdict.value

\* C26: the pool handed to the scorer holds at most 5 * limit dishes, all of
\* them rows of the query of the level that filled it, and no row of that
\* query left out of the pool has a higher rating, or the same rating and a
\* higher order count, or the same of both and a higher view count, than a
\* dish of the pool (a missing value is lower than any value)
C26_PoolIsHeadOfOrder ==
  LET OfDiet(S) == IF TruthyStr(user.dietary_preferences) THEN DietaryIs(dishes, S, user) ELSE S
      OfSpice(S) == IF TruthyStr(user.spice_level) THEN SpiceIs(dishes, S, user) ELSE S
      matching == MatchingCuisineProducerIds(DB)
      filtered == IF last.response.level = 0
                  THEN FilteredDishes(DB, NearbyProducerIds(DB, request.lat, request.lon), matching,
                                      Len(get_preferred_cuisines_list(user)) > 0 /\ matching # {})
                  ELSE IF last.response.level = 1 THEN OfSpice(OfDiet(AvailableDishes(dishes)))
                  ELSE IF last.response.level = 2 THEN OfDiet(AvailableDishes(dishes))
                  ELSE AvailableDishes(dishes)
      key(d) == << KeyOf(dishes[d].average_rating), KeyOf(dishes[d].order_count),
                   KeyOf(dishes[d].view_count) >>
      precedes(a, b) == \/ key(a)[1] > key(b)[1]
                        \/ key(a)[1] = key(b)[1] /\ key(a)[2] > key(b)[2]
                        \/ key(a)[1] = key(b)[1] /\ key(a)[2] = key(b)[2] /\ key(a)[3] > key(b)[3]
  IN  AnsweredLocally =>
        /\ Len(last.response.pool) <= 5 * request.limit
        /\ Len(last.response.pool) = Min(5 * request.limit, Cardinality(filtered))
        /\ Range(last.response.pool) \subseteq filtered
        /\ \A i, j \in DOMAIN last.response.pool : i < j => last.response.pool[i] # last.response.pool[j]
        /\ \A i, j \in DOMAIN last.response.pool :
             i < j => ~precedes(last.response.pool[j], last.response.pool[i])
        /\ \A a \in filtered \ Range(last.response.pool), b \in Range(last.response.pool) :
             ~precedes(a, b)

\* C27: the list returned by the composer is the list before the fill step,
\* it has min(limit, number of scored candidates that passed the inclusion
\* rule) dishes, no dish twice, and no included candidate is left out by the
\* -20 threshold of the fill step while a slot is free
C27_FillStepAddsNothing ==
  LET scored_dishes == ScoredDishes(last.response.evaluated)
      returned == last.response.recommendations
  IN  AnsweredLocally =>
        /\ returned = TopDishes(DB, scored_dishes, request.limit)
        /\ Len(returned) = Min(request.limit, Len(scored_dishes))
        /\ \A i, j \in DOMAIN returned : i < j => returned[i] # returned[j]
        /\ Len(returned) < request.limit =>
             \A i \in DOMAIN scored_dishes : scored_dishes[i].dish \in Range(returned)

\* C28: when the cuisine filter is still applied as scoring starts, every
\* scored dish is cuisine-matched, the partition of the others is empty,
\* every returned dish is of an eligible kitchen that matches a preferred
\* cuisine, and no dish gets the -10 of the dietary score
C28_AppliedFilterMeansAllMatched ==
  (AnsweredLocally /\ last.response.cuisine_filter_applied) =>
    /\ \A i \in DOMAIN last.response.evaluated :
         /\ last.response.evaluated[i].matches
         /\ IsCuisineMatch(DB, last.response.evaluated[i].dish)
         /\ DietaryScore(DB, last.response.evaluated[i].dish, TRUE,
                         last.response.evaluated[i].matches) # -1000
    /\ \A i \in DOMAIN last.response.recommendations :
         QualifyingVendor(last.response.recommendations[i])

\* the cuisine filter is applied, a matching dish of another diet than the
\* user's is scored, and the returned list is shorter than the limit while
\* a kitchen that does not match has an available dish
C28_Witness ==
  /\ AnsweredLocally /\ last.response.cuisine_filter_applied
  /\ \E i \in DOMAIN last.response.evaluated :
       DietaryScore(DB, last.response.evaluated[i].dish, TRUE, TRUE) = -500
  /\ 0 < Len(last.response.recommendations)
  /\ Len(last.response.recommendations) < request.limit
  /\ \E d \in AvailableDishes(dishes) : EligibleVendor(d) /\ ~PreferredVendor(d)

====
